---- MODULE Spec2Model ----
(***************************************************************************)
(* The specialist-referral backend of src/main.py as a state machine.      *)
(*                                                                         *)
(* Python values are records tagged with their type: None, a string (a     *)
(* tuple of one-character strings), an int, a dict (the tuple of its       *)
(* values in insertion order) or a server timestamp.  A document is a      *)
(* record of its fields, a missing field reads as None (dict.get).         *)
(* Each request is a process that walks through send_referral_email_backend*)
(* one store or SMTP call at a time, so that concurrent requests           *)
(* interleave between calls.  Message bodies, symptoms and the urgency     *)
(* flag only flow into the text of the e-mails and are left out.           *)
(***************************************************************************)
EXTENDS Integers, Sequences, FiniteSets, TLC

VARIABLES
    patients,        \* collection artifacts/{app_id}/public/data/patients: doc id -> doc
    appointments,    \* collection .../specialist_appointments: doc id -> doc
    clock,           \* the store's server time, read by SERVER_TIMESTAMP
    db,              \* the module-level Firestore client, or "None"
    smtp_configured, \* all([SMTP_HOST, SMTP_USERNAME, SMTP_PASSWORD, SENDER_EMAIL])
    specialist_email,\* the module-level SPECIALIST_EMAIL
    gp_appointments, \* collection artifacts/{app_id}/public/data/appointments, in
                     \* the order a query streams its documents
    pc,              \* each request's position in the handler
    req              \* each request's local variables

vars ==
    <<patients, appointments, clock, db, smtp_configured, specialist_email,
      gp_appointments, pc, req>>

-----------------------------------------------------------------------------
(* Bounds *)

\* the random hex suffixes os.urandom yields are drawn from 0..MaxRand
MaxRand == 1
\* the day number datetime.now() yields
Today == 0
\* duration values of the slot table's own specification range over -1..MaxDuration
MaxDuration == 9

\* the requests, numbered in the order they arrive
Procs == {1, 2}

-----------------------------------------------------------------------------
(* Python values *)

None == [t |-> "none"]
Str(chars) == [t |-> "str", s |-> chars]
Num(n) == [t |-> "int", n |-> n]
Dict(items) == [t |-> "dict", items |-> items]
Ts(n) == [t |-> "ts", n |-> n]

\* Python truthiness, as `if x`, `x and ...`, `not x` use it
Truthy(v) ==
    CASE v.t = "none" -> FALSE
      [] v.t = "str"  -> v.s # <<>>
      [] v.t = "int"  -> v.n # 0
      [] v.t = "dict" -> v.items # <<>>
      [] OTHER        -> TRUE

UpperCase == <<"A","B","C","D","E","F","G","H","I","J","K","L","M",
               "N","O","P","Q","R","S","T","U","V","W","X","Y","Z">>
LowerCase == <<"a","b","c","d","e","f","g","h","i","j","k","l","m",
               "n","o","p","q","r","s","t","u","v","w","x","y","z">>
Digits == {"0","1","2","3","4","5","6","7","8","9"}
Letters == {UpperCase[i] : i \in 1..26} \cup {LowerCase[i] : i \in 1..26}

LowerChar(c) ==
    IF \E i \in 1..26 : UpperCase[i] = c
    THEN LowerCase[CHOOSE i \in 1..26 : UpperCase[i] = c]
    ELSE c

\* str.lower()
Lower(v) == Str([i \in 1..Len(v.s) |-> LowerChar(v.s[i])])


-----------------------------------------------------------------------------
(* Module-level configuration *)

\* SPECIALIST_EMAIL = "niljoshna28@gmail.com"
SPECIALIST_EMAIL ==
    Str(<<"n","i","l","j","o","s","h","n","a","2","8","@","g","m","a","i","l",".","c","o","m">>)

\* the sentinel 'N/A' of a request without patient id
NA == Str(<<"N","/","A">>)

\* email_regex = r"^[a-zA-Z0-9._%+-]+@[a-zA-Z0-9.-]+\.[a-zA-Z]{2,}$", as re.match
\* applies it to a string without line breaks: a local part, "@", a domain
\* part, the last "." and two or more letters.
LocalChar(c) == c \in Letters \cup Digits \cup {".", "_", "%", "+", "-"}
DomainChar(c) == c \in Letters \cup Digits \cup {".", "-"}
EmailRegexMatch(v) ==
    \E i, j \in 1..Len(v.s) :
        /\ 1 < i /\ i + 1 < j /\ j + 2 <= Len(v.s)
        /\ v.s[i] = "@" /\ v.s[j] = "."
        /\ \A k \in 1..(i - 1) : LocalChar(v.s[k])
        /\ \A k \in (i + 1)..(j - 1) : DomainChar(v.s[k])
        /\ \A k \in (j + 1)..Len(v.s) : v.s[k] \in Letters

\* get_string_param(data_dict, key, default_value): data_dict.get(key) is None for
\* a missing key; a non-empty dict yields its first value.
get_string_param(data_dict, key, default_value) ==
    LET value == data_dict[key]
    IN  IF value.t = "dict" /\ value.items # <<>>
        THEN value.items[1]
        ELSE IF value # None THEN value ELSE default_value


-----------------------------------------------------------------------------
(* Slot scheduler: lines 405-429.  A date is a day number, so that          *)
(* now + timedelta(weeks=w) is now + 7 * w.                                *)

DAYS == Str(<<"d","a","y","s">>)
WEEKS == Str(<<"w","e","e","k","s">>)
MONTHS == Str(<<"m","o","n","t","h","s">>)
YEARS == Str(<<"y","e","a","r","s">>)

Slot(now, weeks, time) == [assigned_date |-> now + 7 * weeks, assigned_time |-> time]

\* the table with `< 7` for `<= 7` in its first row
AssignSlot_StrictDays(now, duration_value, duration_unit) ==
    IF duration_value # None /\ Truthy(duration_unit)
    THEN IF duration_unit = DAYS /\ duration_value.n < 7
         THEN Slot(now, 2, "10:00")
         ELSE IF duration_unit = WEEKS /\ duration_value.n <= 4
         THEN Slot(now, 3, "14:00")
         ELSE IF \/ (duration_unit = MONTHS /\ duration_value.n >= 1)
                 \/ (duration_unit = WEEKS /\ duration_value.n > 4)
         THEN Slot(now, 6, "11:00")
         ELSE Slot(now, 3, "09:30")
    ELSE Slot(now, 3, "09:00")

\* the table behind `if duration_value and duration_unit`, which takes a
\* duration of 0 for a missing one
AssignSlot_TruthyValue(now, duration_value, duration_unit) ==
    IF Truthy(duration_value) /\ Truthy(duration_unit)
    THEN IF duration_unit = DAYS /\ duration_value.n <= 7
         THEN Slot(now, 2, "10:00")
         ELSE IF duration_unit = WEEKS /\ duration_value.n <= 4
         THEN Slot(now, 3, "14:00")
         ELSE IF \/ (duration_unit = MONTHS /\ duration_value.n >= 1)
                 \/ (duration_unit = WEEKS /\ duration_value.n > 4)
         THEN Slot(now, 6, "11:00")
         ELSE Slot(now, 3, "09:30")
    ELSE Slot(now, 3, "09:00")

AssignSlot(now, duration_value, duration_unit) ==
    IF duration_value # None /\ Truthy(duration_unit)
    THEN IF duration_unit = DAYS /\ duration_value.n <= 7
         THEN Slot(now, 2, "10:00")
         ELSE IF duration_unit = WEEKS /\ duration_value.n <= 4
         THEN Slot(now, 3, "14:00")
         ELSE IF \/ (duration_unit = MONTHS /\ duration_value.n >= 1)
                 \/ (duration_unit = WEEKS /\ duration_value.n > 4)
         THEN Slot(now, 6, "11:00")
         ELSE Slot(now, 3, "09:30")
    ELSE Slot(now, 3, "09:00")

-----------------------------------------------------------------------------
(* Identifiers *)

\* f"PATIENT_{os.urandom(4).hex()}": the hex digits are one token of the bound
GeneratedPatientId(r) == Str(<<"P","A","T","I","E","N","T","_">> \o <<ToString(r)>>)

\* s.replace('N/A', 'UNKNOWN'), left to right
RECURSIVE ReplaceNA(_)
ReplaceNA(chars) ==
    IF chars = <<>> THEN <<>>
    ELSE IF Len(chars) >= 3 /\ SubSeq(chars, 1, 3) = NA.s
    THEN <<"U","N","K","N","O","W","N">> \o ReplaceNA(SubSeq(chars, 4, Len(chars)))
    ELSE <<Head(chars)>> \o ReplaceNA(Tail(chars))

\* s[:5]
Prefix5(chars) == SubSeq(chars, 1, IF Len(chars) < 5 THEN Len(chars) ELSE 5)

\* f"SPEC-{patient_id.replace('N/A', 'UNKNOWN')[:5]}-{os.urandom(3).hex()}"
AppointmentId(patient_id, r) ==
    Str(<<"S","P","E","C","-">> \o Prefix5(ReplaceNA(patient_id.s)) \o <<"-", ToString(r)>>)

-----------------------------------------------------------------------------
(* Documents of the patients collection.  The request only ever carries     *)
(* patient_id, name and email, so the other profile fields of lines 155-160 *)
(* are never touched and are left out.                                     *)

Profile(patient_id, name, email, created_at, last_updated) ==
    [patient_id |-> patient_id, name |-> name, email |-> email,
     created_at |-> created_at, last_updated |-> last_updated]

NoDoc == Profile(None, None, None, None, None)

\* where('patient_id', '==', patient_id): the ids of the matching documents
Matching(patient_id) == {d \in DOMAIN patients : patients[d].patient_id = patient_id}

\* get_patient_profile_from_firestore: (doc, True), or (None, False) when the
\* client is missing, nothing matches or the query raises
get_patient_profile_from_firestore(patient_id) ==
    IF db = "None"
    THEN {[profile |-> NoDoc, found |-> FALSE, raised |-> FALSE]}
    ELSE {[profile |-> NoDoc, found |-> FALSE, raised |-> TRUE]}
         \cup (IF Matching(patient_id) = {}
               THEN {[profile |-> NoDoc, found |-> FALSE, raised |-> FALSE]}
               ELSE {[profile |-> patients[d], found |-> TRUE, raised |-> FALSE] :
                        d \in Matching(patient_id)})

\* patient_profile_data_to_save of lines 359-365; a None value is a dropped key
PatientData(patient_id, name, email) ==
    [patient_id |-> patient_id, name |-> name, email |-> email]

\* lines 127-142 of save_or_update_patient_profile: the query for the existing
\* document, which may raise
QueryProfile(patient_id) ==
    IF db = "None"
    THEN {[kind |-> "uninit"]}
    ELSE {[kind |-> "error"]}
         \cup (IF Matching(patient_id) = {}
               THEN {[kind |-> "miss"]}
               ELSE {[kind |-> "hit", id |-> d] : d \in Matching(patient_id)})

\* lines 147-160: the fields doc_ref.update receives besides last_updated;
\* None stands for a field that is not updated
UpdatedData(patient_data, existing_data) ==
    [name |-> IF Truthy(patient_data.name) /\ patient_data.name # existing_data.name
              THEN patient_data.name ELSE None,
     email |-> IF Truthy(patient_data.email) /\ patient_data.email # existing_data.email
               THEN patient_data.email ELSE None]

\* doc_ref.set(updated_data) for doc_ref.update(updated_data): the fields
\* that are not updated are lost
ApplyUpdate_Set(doc, updated_data, now) ==
    [doc EXCEPT !.name = updated_data.name,
                !.email = updated_data.email,
                !.last_updated = now]

\* doc_ref.update(updated_data) on the stored document
ApplyUpdate(doc, updated_data, now) ==
    [doc EXCEPT !.name = IF updated_data.name # None THEN updated_data.name ELSE @,
                !.email = IF updated_data.email # None THEN updated_data.email ELSE @,
                !.last_updated = now]

\* the new profile filed under the patient's name
NewDocId_Name(patient_data) == patient_data.name

\* line 175: the document id of a new profile
NewDocId(patient_data) == patient_data.patient_id

\* {**patient_data, **existing_data}: the stored fields win
MergedData_ExistingFirst(existing_data, patient_data, now) ==
    [patient_id |-> IF existing_data.patient_id # None
                    THEN existing_data.patient_id ELSE patient_data.patient_id,
     name |-> IF existing_data.name # None THEN existing_data.name ELSE patient_data.name,
     email |-> IF existing_data.email # None THEN existing_data.email ELSE patient_data.email,
     created_at |-> existing_data.created_at,
     last_updated |-> now]

\* lines 183-185: {**existing_data, **patient_data} with last_updated
MergedData(existing_data, patient_data, now) ==
    [patient_id |-> IF patient_data.patient_id # None
                    THEN patient_data.patient_id ELSE existing_data.patient_id,
     name |-> IF patient_data.name # None THEN patient_data.name ELSE existing_data.name,
     email |-> IF patient_data.email # None THEN patient_data.email ELSE existing_data.email,
     created_at |-> existing_data.created_at,
     last_updated |-> now]

\* lines 190-192: the new profile document
CreatedData(patient_data, now) ==
    Profile(patient_data.patient_id, patient_data.name, patient_data.email, now, now)

\* the send without the check of line 64
send_email_via_smtp_Unchecked(to_email) == BOOLEAN

\* send_email_via_smtp: False without configuration (line 64), else True or,
\* when smtplib raises, False
send_email_via_smtp(to_email) ==
    IF smtp_configured THEN BOOLEAN ELSE {FALSE}

\* line 336: the request name against the stored name
NameMismatch(request_name, db_name) ==
    /\ Truthy(request_name)
    /\ Truthy(db_name)
    /\ Lower(request_name) # Lower(db_name)


-----------------------------------------------------------------------------
(* Requests *)

P1 == Str(<<"P","1">>)
AL == Str(<<"A","l">>)
al == Str(<<"a","l">>)
BO == Str(<<"B","o">>)
TREATMENT == Str(<<"r","e","s","t">>)
GOOD_EMAIL == Str(<<"a","l","@","x",".","i","o">>)
BAD_EMAIL == Str(<<"a","l","x",".","i","o">>)

\* the payloads request.get_json() yields; a missing key is None
EMPTY == Str(<<>>)
Payload(patient_id, patient_name, treatment_details, duration_value, duration_unit) ==
    [patient_id |-> patient_id, patient_name |-> patient_name,
     treatment_details |-> treatment_details,
     duration_value |-> duration_value, duration_unit |-> duration_unit]

\* new patients with every duration of the range and every unit
SlotPayloads ==
    {Payload(None, AL, TREATMENT, value, unit) :
        value \in {None} \cup {Num(n) : n \in -1..MaxDuration},
        unit \in {None, EMPTY, DAYS, WEEKS, MONTHS, YEARS}}

\* what the handler's try has to catch: no JSON object, a duration that is
\* a string; and requests that are in order, for a patient with an id and
\* for one without
BoundaryPayloads ==
    {None,
     Payload(P1, AL, TREATMENT, Str(<<"5">>), DAYS),
     Payload(P1, AL, TREATMENT, Num(5), DAYS),
     Payload(None, BO, TREATMENT, None, None)}

Payloads ==
    {Payload(id, name, TREATMENT, Num(5), DAYS) :
        id \in {None, NA, P1}, name \in {None, AL, al, BO}}
    \cup {Payload(P1, AL, None, None, None)}


NoResponse == [status |-> 0]

\* the route the request came in by, the handler's local variables before
\* line 300, and what the request has done so far: the patient id as line
\* 303 extracted it, the
\* send_email_via_smtp calls, the documents written, the calls of
\* save_or_update_patient_profile and of save_appointment_to_firestore and
\* the store calls that raised
Fresh ==
    [route |-> "",
     patient_id |-> None, patient_id_from_request |-> None,
     patient_name_from_request |-> None,
     treatment_details |-> None, duration_value |-> None, duration_unit |-> None,
     profile_found |-> FALSE, patient_profile |-> NoDoc,
     final_patient_name |-> None, final_patient_email |-> None,
     patient_data |-> PatientData(None, None, None),
     existing_id |-> None, existing_data |-> NoDoc, new_doc_id |-> None,
     profile_save_success |-> FALSE,
     assigned_date |-> 0, assigned_time |-> "", appointment_id |-> None,
     specialist_email_sent_status |-> FALSE, patient_email_sent_status |-> FALSE,
     db_save_success |-> FALSE,
     response |-> NoResponse,
     sends |-> <<>>, profile_writes |-> <<>>, appointment_writes |-> <<>>,
     profile_saves |-> 0, appointment_saves |-> 0,
     store_errors |-> 0, docs_at_start |-> {}]

-----------------------------------------------------------------------------
(* Initial states *)

\* the patients collection as earlier traffic and other services left it:
\* empty; a profile under its patient id, with or without a name or a
\* well-formed e-mail, or with an empty one; a profile under a
\* store-generated document id; a document under the patient id that carries
\* no patient_id field
L1 == Str(<<"L","1">>)
InitialPatients ==
    { <<>>,
      (P1 :> Profile(P1, AL, GOOD_EMAIL, Ts(0), Ts(0))),
      (P1 :> Profile(P1, AL, None, Ts(0), Ts(0))),
      (P1 :> Profile(P1, AL, BAD_EMAIL, Ts(0), Ts(0))),
      (P1 :> Profile(P1, AL, EMPTY, Ts(0), Ts(0))),
      (P1 :> Profile(P1, None, GOOD_EMAIL, Ts(0), Ts(0))),
      (L1 :> Profile(P1, AL, GOOD_EMAIL, Ts(0), Ts(0))),
      (P1 :> Profile(None, BO, None, Ts(0), Ts(0))) }

InitCommon ==
    /\ patients \in InitialPatients
    /\ appointments = <<>>
    /\ clock = 1
    /\ smtp_configured \in BOOLEAN
    /\ pc = [p \in Procs |-> "idle"]
    /\ req = [p \in Procs |-> Fresh]

\* the deployment of src/main.py: the client exists once the module has
\* loaded (lines 25-41 raise otherwise), the specialist address is line 55.
\* SMTP is configured: a send may still fail, so that every run of a
\* deployment without SMTP, where each send returns False, has its twin
\* here; SpecDeploy and SpecBoundary have the deployments without.
Init ==
    /\ InitCommon
    /\ smtp_configured
    /\ db = "client"
    /\ specialist_email = SPECIALIST_EMAIL
    /\ gp_appointments = <<>>


-----------------------------------------------------------------------------
(* send_referral_email_backend, lines 293-561 *)

Update(p, r) == req' = [req EXCEPT ![p] = r]
Goto(p, label) == pc' = [pc EXCEPT ![p] = label]
Respond(r, response) == [r EXCEPT !.response = response]

\* lines 559-561: the response for an exception the handler's try catches
InternalServerError ==
    [status |-> 500, success |-> FALSE, message |-> <<"internal_server_error">>]

\* lines 300-319 and 348-352: the parameters; without a usable patient id a
\* new one is generated and the patient is new.  A body that is JSON null
\* makes request_data None, and line 303 raises.
Receive(p, payloads) ==
    /\ pc[p] = "idle"
    /\ \E request_data \in payloads, rand \in 0..MaxRand :
          IF request_data = None
          THEN /\ Update(p, Respond([Fresh EXCEPT !.route = "/send_referral_email",
                                                  !.docs_at_start = DOMAIN patients],
                                    InternalServerError))
               /\ Goto(p, "done")
          ELSE
          LET patient_id == get_string_param(request_data, "patient_id", NA)
              name == get_string_param(request_data, "patient_name", None)
              r == [Fresh EXCEPT
                      !.route = "/send_referral_email",
                      !.patient_id = patient_id,
                      !.patient_id_from_request = patient_id,
                      !.patient_name_from_request = name,
                      !.treatment_details =
                          get_string_param(request_data, "treatment_details", None),
                      !.duration_value = request_data.duration_value,
                      !.duration_unit =
                          get_string_param(request_data, "duration_unit", None),
                      !.docs_at_start = DOMAIN patients]
          IN  IF Truthy(patient_id) /\ patient_id # NA
              THEN /\ Update(p, r)
                   /\ Goto(p, "lookup")
              ELSE /\ Update(p, [r EXCEPT !.patient_id = GeneratedPatientId(rand),
                                          !.final_patient_name = name,
                                          !.final_patient_email = None])
                   /\ Goto(p, "upsert")
    /\ UNCHANGED <<patients, appointments, clock, db, smtp_configured, specialist_email, gp_appointments>>

ReceiveReferral(p) == Receive(p, Payloads)

\* a new id for every patient the lookup does not find
IdWhenNotFound_Regenerated(patient_id, rand) == GeneratedPatientId(rand)

\* lines 325-326: the id of a patient the lookup did not find; only the
\* sentinel is replaced
IdWhenNotFound(patient_id, rand) ==
    IF patient_id = NA THEN GeneratedPatientId(rand) ELSE patient_id

\* request name first
FinalPatientName_RequestFirst(db_patient_name, patient_name_from_request) ==
    IF Truthy(patient_name_from_request) THEN patient_name_from_request ELSE db_patient_name

\* line 344: db_patient_name if db_patient_name else patient_name_from_request
FinalPatientName(db_patient_name, patient_name_from_request) ==
    IF Truthy(db_patient_name) THEN db_patient_name ELSE patient_name_from_request

\* the rejection that leaves its mark on the profile it read
LookupProfile_TouchOnMismatch(p) ==
    /\ pc[p] = "lookup"
    /\ \E res \in get_patient_profile_from_firestore(req[p].patient_id),
          rand \in 0..MaxRand :
          LET r == [req[p] EXCEPT
                      !.profile_found = res.found,
                      !.patient_profile = res.profile,
                      !.store_errors = @ + (IF res.raised THEN 1 ELSE 0)]
              name == req[p].patient_name_from_request
              db_patient_name == res.profile.name
              db_patient_email == res.profile.email
          IN  IF ~res.found
              THEN /\ Update(p, [r EXCEPT !.patient_id = IdWhenNotFound(@, rand),
                                          !.final_patient_name = name,
                                          !.final_patient_email = None])
                   /\ Goto(p, "upsert")
                   /\ UNCHANGED patients
              ELSE IF NameMismatch(name, db_patient_name)
              THEN /\ Update(p, Respond(r, [status |-> 400, success |-> FALSE,
                                            message |-> <<"name_mismatch">>]))
                   /\ Goto(p, "done")
                   /\ patients' =
                         [d \in DOMAIN patients |->
                            IF patients[d].patient_id = req[p].patient_id
                            THEN [patients[d] EXCEPT !.last_updated = Ts(clock)]
                            ELSE patients[d]]
              ELSE /\ Update(p, [r EXCEPT
                                   !.final_patient_name =
                                       FinalPatientName(db_patient_name, name),
                                   !.final_patient_email = db_patient_email])
                   /\ Goto(p, "upsert")
                   /\ UNCHANGED patients
    /\ UNCHANGED <<appointments, clock, db, smtp_configured, specialist_email, gp_appointments>>

\* lines 320-346: the profile lookup and the name check
LookupProfile(p) ==
    /\ pc[p] = "lookup"
    /\ \E res \in get_patient_profile_from_firestore(req[p].patient_id),
          rand \in 0..MaxRand :
          LET r == [req[p] EXCEPT
                      !.profile_found = res.found,
                      !.patient_profile = res.profile,
                      !.store_errors = @ + (IF res.raised THEN 1 ELSE 0)]
              name == req[p].patient_name_from_request
              db_patient_name == res.profile.name
              db_patient_email == res.profile.email
          IN  IF ~res.found
              THEN /\ Update(p, [r EXCEPT !.patient_id = IdWhenNotFound(@, rand),
                                          !.final_patient_name = name,
                                          !.final_patient_email = None])
                   /\ Goto(p, "upsert")
              ELSE IF NameMismatch(name, db_patient_name)
              THEN /\ Update(p, Respond(r, [status |-> 400, success |-> FALSE,
                                            message |-> <<"name_mismatch">>]))
                   /\ Goto(p, "done")
              ELSE /\ Update(p, [r EXCEPT
                                   !.final_patient_name =
                                       FinalPatientName(db_patient_name, name),
                                   !.final_patient_email = db_patient_email])
                   /\ Goto(p, "upsert")
    /\ UNCHANGED <<patients, appointments, clock, db, smtp_configured, specialist_email, gp_appointments>>


\* lines 355-369 and 127-144, 171-173: the data to save and the query of
\* save_or_update_patient_profile
UpsertQuery(p) ==
    /\ pc[p] = "upsert"
    /\ LET name_to_save_in_profile ==
              IF Truthy(req[p].patient_name_from_request)
              THEN req[p].patient_name_from_request
              ELSE req[p].final_patient_name
           patient_data == PatientData(req[p].patient_id, name_to_save_in_profile,
                                       req[p].final_patient_email)
           r == [req[p] EXCEPT !.patient_data = patient_data,
                               !.profile_saves = @ + 1]
       IN  \E q \in QueryProfile(patient_data.patient_id) :
              IF q.kind = "hit"
              THEN /\ Update(p, [r EXCEPT !.existing_id = q.id,
                                          !.existing_data = patients[q.id]])
                   /\ Goto(p, "upsert_update")
              ELSE IF q.kind = "miss" /\ Truthy(patient_data.patient_id)
              THEN /\ Update(p, [r EXCEPT !.new_doc_id = NewDocId(patient_data)])
                   /\ Goto(p, "upsert_get")
              ELSE /\ Update(p, [r EXCEPT
                                   !.profile_save_success = FALSE,
                                   !.store_errors = @ + (IF q.kind = "error" THEN 1 ELSE 0)])
                   /\ Goto(p, "validate")
    /\ UNCHANGED <<patients, appointments, clock, db, smtp_configured, specialist_email, gp_appointments>>

\* lines 144-168: the update of the profile the query found
UpsertUpdate(p) ==
    /\ pc[p] = "upsert_update"
    /\ \E raised \in BOOLEAN :
          IF raised
          THEN /\ Update(p, [req[p] EXCEPT !.profile_save_success = FALSE,
                                           !.store_errors = @ + 1])
               /\ UNCHANGED <<patients, clock>>
          ELSE /\ patients' =
                     [patients EXCEPT ![req[p].existing_id] =
                         ApplyUpdate(@, UpdatedData(req[p].patient_data,
                                                    req[p].existing_data), Ts(clock))]
               /\ clock' = clock + 1
               /\ Update(p, [req[p] EXCEPT
                               !.profile_save_success = TRUE,
                               !.profile_writes = Append(@, req[p].existing_id)])
    /\ Goto(p, "validate")
    /\ UNCHANGED <<appointments, db, smtp_configured, specialist_email, gp_appointments>>

\* lines 176-183: new_doc_ref.get()
UpsertGet(p) ==
    /\ pc[p] = "upsert_get"
    /\ \E raised \in BOOLEAN :
          IF raised
          THEN /\ Update(p, [req[p] EXCEPT !.profile_save_success = FALSE,
                                           !.store_errors = @ + 1])
               /\ Goto(p, "validate")
          ELSE IF req[p].new_doc_id \in DOMAIN patients
          THEN /\ Update(p, [req[p] EXCEPT
                               !.existing_data = patients[req[p].new_doc_id]])
               /\ Goto(p, "upsert_merge")
          ELSE /\ Update(p, req[p])
               /\ Goto(p, "upsert_create")
    /\ UNCHANGED <<patients, appointments, clock, db, smtp_configured, specialist_email, gp_appointments>>

\* lines 184-188: the document under the patient id is overwritten with the
\* merged data
UpsertMerge(p) ==
    /\ pc[p] = "upsert_merge"
    /\ \E raised \in BOOLEAN :
          IF raised
          THEN /\ Update(p, [req[p] EXCEPT !.profile_save_success = FALSE,
                                           !.store_errors = @ + 1])
               /\ UNCHANGED <<patients, clock>>
          ELSE /\ patients' =
                     [patients EXCEPT ![req[p].new_doc_id] =
                         MergedData(req[p].existing_data, req[p].patient_data, Ts(clock))]
               /\ clock' = clock + 1
               /\ Update(p, [req[p] EXCEPT
                               !.profile_save_success = TRUE,
                               !.profile_writes = Append(@, req[p].new_doc_id)])
    /\ Goto(p, "validate")
    /\ UNCHANGED <<appointments, db, smtp_configured, specialist_email, gp_appointments>>

\* lines 190-194: the new profile is set under the new document id
UpsertCreate(p) ==
    /\ pc[p] = "upsert_create"
    /\ \E raised \in BOOLEAN :
          IF raised
          THEN /\ Update(p, [req[p] EXCEPT !.profile_save_success = FALSE,
                                           !.store_errors = @ + 1])
               /\ UNCHANGED <<patients, clock>>
          ELSE /\ patients' =
                     (req[p].new_doc_id :> CreatedData(req[p].patient_data, Ts(clock)))
                         @@ patients
               /\ clock' = clock + 1
               /\ Update(p, [req[p] EXCEPT
                               !.profile_save_success = TRUE,
                               !.profile_writes = Append(@, req[p].new_doc_id)])
    /\ Goto(p, "validate")
    /\ UNCHANGED <<appointments, db, smtp_configured, specialist_email, gp_appointments>>


\* the check without the treatment details
MissingFields_NameOnly(final_patient_name, treatment_details) ==
    IF Truthy(final_patient_name) THEN <<>> ELSE <<"patient_name">>

\* lines 383-393: the required fields that are missing
MissingFields(final_patient_name, treatment_details) ==
    (IF Truthy(final_patient_name) THEN <<>> ELSE <<"patient_name">>)
        \o (IF Truthy(treatment_details) THEN <<>> ELSE <<"treatment_details">>)

\* the check without the pattern
WellFormedEmail_TypeOnly(email) == email.t = "str"

\* isinstance(x, str) and re.match(email_regex, x)
WellFormedEmail(email) == email.t = "str" /\ EmailRegexMatch(email)

\* lines 412-418: the comparisons of a duration_value that is no number
\* raise TypeError; they are made for the units of the table only
DurationRaises(duration_value, duration_unit) ==
    /\ duration_value # None /\ Truthy(duration_unit)
    /\ duration_unit \in {DAYS, WEEKS, MONTHS}
    /\ duration_value.t # "int"

\* lines 373-432: validation, then the slot and the appointment id
Validate(p) ==
    /\ pc[p] = "validate"
    /\ LET missing_fields ==
              MissingFields(req[p].final_patient_name, req[p].treatment_details)
       IN  IF missing_fields # <<>>
           THEN /\ Update(p, Respond(req[p], [status |-> 400, success |-> FALSE,
                                              message |-> <<"missing">> \o missing_fields]))
                /\ Goto(p, "done")
           ELSE IF ~WellFormedEmail(specialist_email)
           THEN /\ Update(p, Respond(req[p], [status |-> 500, success |-> FALSE,
                                              message |-> <<"invalid_specialist_email">>]))
                /\ Goto(p, "done")
           ELSE IF /\ Truthy(req[p].final_patient_email)
                   /\ ~WellFormedEmail(req[p].final_patient_email)
           THEN /\ Update(p, Respond(req[p], [status |-> 400, success |-> FALSE,
                                              message |-> <<"invalid_patient_email">>]))
                /\ Goto(p, "done")
           ELSE IF DurationRaises(req[p].duration_value, req[p].duration_unit)
           THEN /\ Update(p, Respond(req[p], InternalServerError))
                /\ Goto(p, "done")
           ELSE \E rand \in 0..MaxRand :
                  LET slot == AssignSlot(Today, req[p].duration_value, req[p].duration_unit)
                  IN  /\ Update(p, [req[p] EXCEPT
                                      !.assigned_date = slot.assigned_date,
                                      !.assigned_time = slot.assigned_time,
                                      !.appointment_id =
                                          AppointmentId(req[p].patient_id, rand)])
                      /\ Goto(p, "send_specialist")
    /\ UNCHANGED <<patients, appointments, clock, db, smtp_configured, specialist_email, gp_appointments>>

\* the specialist e-mail tried a second time when the first send fails
SendSpecialist_Retry(p) ==
    /\ pc[p] = "send_specialist"
    /\ \E sent \in send_email_via_smtp(specialist_email) :
          /\ Update(p, [req[p] EXCEPT
                          !.specialist_email_sent_status = sent,
                          !.sends = Append(@, [to_email |-> specialist_email,
                                               kind |-> "specialist",
                                               patient_name |-> req[p].final_patient_name,
                                               sent |-> sent])])
          /\ IF ~sent /\ req[p].sends = <<>>
             THEN UNCHANGED pc
             ELSE Goto(p, "send_patient")
    /\ UNCHANGED <<patients, appointments, clock, db, smtp_configured, specialist_email, gp_appointments>>

\* lines 439-455 and 493-498: the specialist e-mail, which names the patient
SendSpecialist(p) ==
    /\ pc[p] = "send_specialist"
    /\ \E sent \in send_email_via_smtp(specialist_email) :
          Update(p, [req[p] EXCEPT
                       !.specialist_email_sent_status = sent,
                       !.sends = Append(@, [to_email |-> specialist_email,
                                            kind |-> "specialist",
                                            patient_name |-> req[p].final_patient_name,
                                            sent |-> sent])])
    /\ Goto(p, "send_patient")
    /\ UNCHANGED <<patients, appointments, clock, db, smtp_configured, specialist_email, gp_appointments>>

\* the patient e-mail sent without looking at the address
PatientSendDue_Always(final_patient_email) == TRUE

\* line 502: whether the patient e-mail is sent at all
PatientSendDue(final_patient_email) ==
    Truthy(final_patient_email) /\ EmailRegexMatch(final_patient_email)

\* the patient e-mail only after a specialist e-mail that went out
SendPatient_AfterSpecialist(p) ==
    /\ pc[p] = "send_patient"
    /\ IF PatientSendDue(req[p].final_patient_email) /\ req[p].specialist_email_sent_status
       THEN \E sent \in send_email_via_smtp(req[p].final_patient_email) :
              Update(p, [req[p] EXCEPT
                           !.patient_email_sent_status = sent,
                           !.sends = Append(@, [to_email |-> req[p].final_patient_email,
                                                kind |-> "patient",
                                                patient_name |-> req[p].final_patient_name,
                                                sent |-> sent])])
       ELSE Update(p, [req[p] EXCEPT !.patient_email_sent_status = FALSE])
    /\ Goto(p, "record")
    /\ UNCHANGED <<patients, appointments, clock, db, smtp_configured, specialist_email, gp_appointments>>

\* lines 468-480 and 500-510: the patient e-mail, which greets the patient
\* by name
SendPatient(p) ==
    /\ pc[p] = "send_patient"
    /\ IF PatientSendDue(req[p].final_patient_email)
       THEN \E sent \in send_email_via_smtp(req[p].final_patient_email) :
              Update(p, [req[p] EXCEPT
                           !.patient_email_sent_status = sent,
                           !.sends = Append(@, [to_email |-> req[p].final_patient_email,
                                                kind |-> "patient",
                                                patient_name |-> req[p].final_patient_name,
                                                sent |-> sent])])
       ELSE Update(p, [req[p] EXCEPT !.patient_email_sent_status = FALSE])
    /\ Goto(p, "record")
    /\ UNCHANGED <<patients, appointments, clock, db, smtp_configured, specialist_email, gp_appointments>>

\* the referral filed in the collection the GP lookup reads
collection_name_Appointments == "appointments"

\* line 533: the collection the handler has save_appointment_to_firestore
\* write to (also the default of line 97); the GP lookup reads
\* "appointments" (line 243)
collection_name == "specialist_appointments"

\* lines 513-532 and 111: the appointment document
AppointmentDetails(r, now) ==
    [appointment_id |-> r.appointment_id,
     patient_id |-> r.patient_id,
     appointment_type |-> "Specialist",
     assigned_date |-> r.assigned_date,
     assigned_time |-> r.assigned_time,
     duration_value |-> r.duration_value,
     duration_unit |-> r.duration_unit,
     patient_name |-> r.final_patient_name,
     specialist_email |-> specialist_email,
     patient_email |-> r.final_patient_email,
     treatment_details |-> r.treatment_details,
     specialist_email_sent_status |-> r.specialist_email_sent_status,
     patient_email_sent_status |-> r.patient_email_sent_status,
     timestamp |-> now]

\* the flag without the patient e-mail
OverallSuccess_NoPatient(specialist_email_sent_status, patient_email_sent_status, db_save_success) ==
    specialist_email_sent_status /\ db_save_success

\* the flag without the save
OverallSuccess_SendsOnly(specialist_email_sent_status, patient_email_sent_status, db_save_success) ==
    specialist_email_sent_status /\ patient_email_sent_status

\* line 547
OverallSuccess(specialist_email_sent_status, patient_email_sent_status, db_save_success) ==
    specialist_email_sent_status /\ patient_email_sent_status /\ db_save_success

\* lines 538-556: the message and the response
ResponseData(r, db_save_success) ==
    [status |-> 200,
     success |-> OverallSuccess(r.specialist_email_sent_status,
                                r.patient_email_sent_status, db_save_success),
     message |-> <<"booked">>
                  \o (IF r.specialist_email_sent_status THEN <<>> ELSE <<"specialist_issue">>)
                  \o (IF r.patient_email_sent_status THEN <<>> ELSE <<"patient_issue">>)
                  \o (IF db_save_success THEN <<>> ELSE <<"database_issue">>),
     assigned_date |-> r.assigned_date,
     assigned_time |-> r.assigned_time,
     appointment_id |-> r.appointment_id,
     patient_email_sent_status |-> r.patient_email_sent_status,
     specialist_email_sent_status |-> r.specialist_email_sent_status,
     db_save_success |-> db_save_success,
     confirmation_email_address |-> r.final_patient_email]

\* the appointment saved only when the specialist e-mail went out
RecordAppointment_OnlyIfSent(p) ==
    /\ pc[p] = "record"
    /\ \E raised \in BOOLEAN :
          IF ~req[p].specialist_email_sent_status
          THEN /\ Update(p, Respond([req[p] EXCEPT !.db_save_success = FALSE],
                                    ResponseData(req[p], FALSE)))
               /\ UNCHANGED <<appointments, clock, gp_appointments>>
          ELSE IF db = "None" \/ raised
          THEN /\ Update(p, Respond([req[p] EXCEPT
                                       !.db_save_success = FALSE,
                                       !.appointment_saves = @ + 1,
                                       !.store_errors = @ + (IF db = "None" THEN 0 ELSE 1)],
                                    ResponseData(req[p], FALSE)))
               /\ UNCHANGED <<appointments, clock, gp_appointments>>
          ELSE /\ appointments' =
                     IF collection_name = "specialist_appointments"
                     THEN (req[p].appointment_id :> AppointmentDetails(req[p], Ts(clock)))
                              @@ appointments
                     ELSE appointments
               /\ gp_appointments' =
                     IF collection_name = "appointments"
                     THEN Append(gp_appointments, AppointmentDetails(req[p], Ts(clock)))
                     ELSE gp_appointments
               /\ clock' = clock + 1
               /\ Update(p, Respond([req[p] EXCEPT
                                       !.db_save_success = TRUE,
                                       !.appointment_saves = @ + 1,
                                       !.appointment_writes = Append(@, req[p].appointment_id)],
                                    ResponseData(req[p], TRUE)))
    /\ Goto(p, "done")
    /\ UNCHANGED <<patients, db, smtp_configured, specialist_email>>

\* save_appointment_to_firestore (lines 98-118) as line 533 calls it, then
\* the response of lines 537-557
RecordAppointment(p) ==
    /\ pc[p] = "record"
    /\ \E raised \in BOOLEAN :
          IF db = "None" \/ raised
          THEN /\ Update(p, Respond([req[p] EXCEPT
                                       !.db_save_success = FALSE,
                                       !.appointment_saves = @ + 1,
                                       !.store_errors = @ + (IF db = "None" THEN 0 ELSE 1)],
                                    ResponseData(req[p], FALSE)))
               /\ UNCHANGED <<appointments, clock, gp_appointments>>
          ELSE /\ appointments' =
                     IF collection_name = "specialist_appointments"
                     THEN (req[p].appointment_id :> AppointmentDetails(req[p], Ts(clock)))
                              @@ appointments
                     ELSE appointments
               /\ gp_appointments' =
                     IF collection_name = "appointments"
                     THEN Append(gp_appointments, AppointmentDetails(req[p], Ts(clock)))
                     ELSE gp_appointments
               /\ clock' = clock + 1
               /\ Update(p, Respond([req[p] EXCEPT
                                       !.db_save_success = TRUE,
                                       !.appointment_saves = @ + 1,
                                       !.appointment_writes = Append(@, req[p].appointment_id)],
                                    ResponseData(req[p], TRUE)))
    /\ Goto(p, "done")
    /\ UNCHANGED <<patients, db, smtp_configured, specialist_email>>

\* lines 341, 393, 398, 403, 557: the handler returns its response
Return(p) ==
    /\ pc[p] = "done"
    /\ Update(p, Fresh)
    /\ Goto(p, "returned")
    /\ UNCHANGED <<patients, appointments, clock, db, smtp_configured, specialist_email, gp_appointments>>

-----------------------------------------------------------------------------
(* get_gp_doctor_backend, lines 228-281 *)

\* a document of the appointments collection; None is a missing key
GpDoc(patient_id, appointment_type, timestamp, doctor_name) ==
    [patient_id |-> patient_id, appointment_type |-> appointment_type,
     timestamp |-> timestamp, doctor_name |-> doctor_name]

DR_A == Str(<<"D","r","A">>)
DR_B == Str(<<"D","r","B">>)
\* the placeholder of line 267
A_GP_DOCTOR == Str(<<"a"," ","G","P"," ","d","o","c","t","o","r">>)

\* another patient of the practice
P2 == Str(<<"P","2">>)

\* the appointments collection as the booking service left it: empty; two
\* visits of P1 around one of P2 that names no doctor; a latest visit that
\* carries the placeholder, next to a specialist visit and a document
\* without timestamp
GpCollections ==
    { <<>>,
      <<GpDoc(P1, "GP", Ts(1), DR_A), GpDoc(P2, "GP", Ts(3), None),
        GpDoc(P1, "GP", Ts(2), DR_B)>>,
      <<GpDoc(P1, "GP", Ts(2), A_GP_DOCTOR), GpDoc(P1, "Specialist", Ts(3), DR_A),
        GpDoc(P1, "GP", None, DR_B)>> }

\* lines 248-259: the patient's documents of type GP that have a timestamp
GpAppointments(patient_id) ==
    SelectSeq(gp_appointments,
              LAMBDA data : /\ data.patient_id = patient_id
                            /\ data.appointment_type = "GP"
                            /\ data.timestamp # None)

\* the head of the list as it was streamed, unsorted
MostRecent_Unsorted(docs) == docs[1]

\* line 262: the head of the list sorted by timestamp, latest first; the
\* sort is stable, so of two equal timestamps the first streamed wins
MostRecent(docs) ==
    docs[CHOOSE i \in 1..Len(docs) :
            \A j \in 1..Len(docs) :
                \/ docs[j].timestamp.n < docs[i].timestamp.n
                \/ docs[j].timestamp.n = docs[i].timestamp.n /\ i <= j]

\* lines 264-268
GpDoctorName(docs) ==
    IF docs = <<>> THEN None
    ELSE IF MostRecent(docs).doctor_name = A_GP_DOCTOR THEN None
    ELSE MostRecent(docs).doctor_name

\* lines 273-277
GpResponse(doctor_name) ==
    [status |-> 200, success |-> doctor_name # None, doctor_name |-> doctor_name,
     message |-> IF Truthy(doctor_name) THEN <<"gp_retrieved">> ELSE <<"no_gp_found">>]

\* the bodies of a lookup: JSON null, no patient id, an empty one, a patient's
GpPayloads ==
    {None, [patient_id |-> None], [patient_id |-> EMPTY], [patient_id |-> P1],
     [patient_id |-> P2]}

\* the whole handler: it makes one store query, which may raise
get_gp_doctor_backend(p) ==
    /\ pc[p] = "idle"
    /\ \E request_data \in GpPayloads, raised \in BOOLEAN :
          LET patient_id == get_string_param(request_data, "patient_id", None)
              response ==
                  IF db = "None"
                  THEN [status |-> 500, success |-> FALSE,
                        message |-> <<"not_initialized">>]
                  ELSE IF request_data = None
                  THEN [status |-> 500, success |-> FALSE,
                        error |-> <<"internal_server_error">>]
                  ELSE IF ~Truthy(patient_id)
                  THEN [status |-> 400, success |-> FALSE,
                        message |-> <<"patient_id_required">>]
                  ELSE IF raised
                  THEN [status |-> 500, success |-> FALSE,
                        error |-> <<"internal_server_error">>]
                  ELSE GpResponse(GpDoctorName(GpAppointments(patient_id)))
          IN  Update(p, Respond([Fresh EXCEPT !.route = "/get_gp_doctor",
                                                !.patient_id =
                                                    IF request_data = None
                                                    THEN None ELSE patient_id,
                                                !.docs_at_start = DOMAIN patients],
                                response))
    /\ Goto(p, "done")
    /\ UNCHANGED <<patients, appointments, clock, db, smtp_configured, specialist_email, gp_appointments>>

-----------------------------------------------------------------------------
(* Specifications *)

Handle(p) ==
        \/ LookupProfile(p)
        \/ UpsertQuery(p)
        \/ UpsertUpdate(p)
        \/ UpsertGet(p)
        \/ UpsertMerge(p)
        \/ UpsertCreate(p)
        \/ Validate(p)
        \/ SendSpecialist(p)
        \/ SendPatient(p)
        \/ RecordAppointment(p)
        \/ Return(p)

\* one request at a time: a request arrives when the one before it has returned
Next ==
    \E p \in Procs :
        \/ /\ \A q \in Procs : q < p => pc[q] = "returned"
           /\ ReceiveReferral(p)
        \/ Handle(p)

Spec == Init /\ [][Next]_vars

\* Overlapping requests: a request arrives once the one before it has arrived.
\* To keep the interleavings of the store calls within reach, every request
\* carries a name and treatment details, the SMTP server is configured and
\* accepts every message (the sends touch no state the requests share), and
\* the collection starts empty or with a document the upsert has to reconcile.
InitConcurrent ==
    /\ Init
    /\ smtp_configured
    /\ \A d \in DOMAIN patients : d # patients[d].patient_id

Delivered(p) == \A i \in DOMAIN req'[p].sends : req'[p].sends[i].sent

NextConcurrent ==
    \E p \in Procs :
        \/ /\ \A q \in Procs : q < p => pc[q] # "idle"
           /\ ReceiveReferral(p)
           /\ req'[p].patient_name_from_request \in {AL, BO}
           /\ req'[p].treatment_details # None
        \/ LookupProfile(p)
        \/ UpsertQuery(p)
        \/ UpsertUpdate(p)
        \/ UpsertGet(p)
        \/ UpsertMerge(p)
        \/ UpsertCreate(p)
        \/ Validate(p)
        \/ SendSpecialist(p) /\ Delivered(p)
        \/ SendPatient(p) /\ Delivered(p)
        \/ RecordAppointment(p)
        \/ Return(p)

SpecConcurrent == InitConcurrent /\ [][NextConcurrent]_vars

\* The race for one patient: overlapping requests as in SpecConcurrent, each
\* of which carries a patient id (line 319), so that both go through the
\* lookup of lines 320-346 before their upsert
NextRace ==
    \E p \in Procs :
        \/ /\ \A q \in Procs : q < p => pc[q] # "idle"
           /\ ReceiveReferral(p)
           /\ pc'[p] = "lookup"
           /\ req'[p].patient_name_from_request \in {AL, BO}
           /\ req'[p].treatment_details # None
        \/ LookupProfile(p)
        \/ UpsertQuery(p)
        \/ UpsertUpdate(p)
        \/ UpsertGet(p)
        \/ UpsertMerge(p)
        \/ UpsertCreate(p)
        \/ Validate(p)
        \/ SendSpecialist(p) /\ Delivered(p)
        \/ SendPatient(p) /\ Delivered(p)
        \/ RecordAppointment(p)
        \/ Return(p)

SpecRace == InitConcurrent /\ [][NextRace]_vars

\* Other deployments: the module loaded without a Firestore client (db is
\* None, the case lines 103, 127, 205 and 233 test for) or with another
\* SPECIALIST_EMAIL in line 55 (the case line 396 tests for)
MALFORMED_SPECIALIST_EMAIL == Str(<<"n","i","l","g","m","a","i","l",".","c","o","m">>)

InitDeploy ==
    /\ InitCommon
    /\ db \in {"client", "None"}
    /\ specialist_email \in {SPECIALIST_EMAIL, MALFORMED_SPECIALIST_EMAIL}
    /\ db = "None" \/ specialist_email # SPECIALIST_EMAIL
    /\ gp_appointments = <<>>

SpecDeploy == InitDeploy /\ [][Next]_vars

\* Both endpoints in every state of their dependencies: with and without a
\* Firestore client, with and without SMTP configuration, store calls and
\* sends that fail, and the requests the handlers' except clauses are there
\* for
InitBoundary ==
    /\ InitCommon
    /\ db \in {"client", "None"}
    /\ specialist_email = SPECIALIST_EMAIL
    /\ gp_appointments \in GpCollections

NextBoundary ==
    \E p \in Procs :
        \/ /\ \A q \in Procs : q < p => pc[q] = "returned"
           /\ Receive(p, BoundaryPayloads)
        \/ /\ \A q \in Procs : q < p => pc[q] = "returned"
           /\ get_gp_doctor_backend(p)
        \/ Handle(p)

SpecBoundary == InitBoundary /\ [][NextBoundary]_vars

\* The slot table on its own: one request of a new patient, with every
\* duration of SlotPayloads, against an empty collection
InitSlot ==
    /\ Init
    /\ patients = <<>>
    /\ smtp_configured

NextSlot ==
    \/ Receive(1, SlotPayloads)
    \/ UpsertQuery(1)
    \/ UpsertGet(1)
    \/ UpsertCreate(1)
    \/ Validate(1)
    \/ SendSpecialist(1)
    \/ SendPatient(1)
    \/ RecordAppointment(1)
    \/ Return(1)

SpecSlot == InitSlot /\ [][NextSlot]_vars

\* The field extractor on its own: a call of get_string_param for each
\* shape a JSON value under a key can have (absent or null, a string, the
\* empty string, a number, an object that is empty, wraps one scalar, wraps
\* two, or wraps another object), each key and each default of the call
\* sites (None in lines 238, 304, 307, 312; 'N/A' in line 303)
ExtractValues ==
    {None, AL, EMPTY, Num(5), Dict(<<>>), Dict(<<AL>>), Dict(<<BO, AL>>),
     Dict(<<Dict(<<AL>>)>>)}

ExtractPayloads ==
    [patient_id : ExtractValues, patient_name : {None, AL, Dict(<<BO>>)}]

\* one call: the arguments and what the call returned
CallGetStringParam(p) ==
    /\ pc[p] = "idle"
    /\ \E data_dict \in ExtractPayloads, key \in {"patient_id", "patient_name"},
          default_value \in {None, NA} :
          Update(p, [route |-> "get_string_param", data_dict |-> data_dict,
                     key |-> key, default_value |-> default_value,
                     value |-> get_string_param(data_dict, key, default_value)])
    /\ Goto(p, "done")
    /\ UNCHANGED <<patients, appointments, clock, db, smtp_configured, specialist_email, gp_appointments>>

InitExtract ==
    /\ Init
    /\ patients = <<>>

NextExtract ==
    \E p \in Procs :
        \/ /\ \A q \in Procs : q < p => pc[q] = "returned"
           /\ CallGetStringParam(p)
        \/ Return(p)

SpecExtract == InitExtract /\ [][NextExtract]_vars


-----------------------------------------------------------------------------
(* What a request has done, read off its own record *)

Responded(p) == pc[p] = "done"
\* a referral that has its response
Done(p) == Responded(p) /\ req[p].route = "/send_referral_email"
\* the response of lines 546-557, which only a request that passed every
\* validation receives
Assembled(p) == Done(p) /\ req[p].response.status = 200
Rejected(p) == Done(p) /\ req[p].response.status # 200 /\ ~req[p].response.success
SentTo(p, kind) ==
    \E i \in DOMAIN req[p].sends : req[p].sends[i].kind = kind /\ req[p].sends[i].sent
AttemptedTo(p, kind) == \E i \in DOMAIN req[p].sends : req[p].sends[i].kind = kind
Recorded(p) == req[p].appointment_writes # <<>>
NoSendNoRecord(p) == req[p].sends = <<>> /\ req[p].appointment_writes = <<>>

-----------------------------------------------------------------------------
(* C1..C10 *)

\* C1: a request whose patient id has a stored profile (one that was there
\* when the request arrived) with a non-empty name that differs, ignoring
\* case, from the non-empty request name ends with a validation failure and
\* has sent no e-mail and written no appointment.
C1_MismatchRejected ==
    \A p \in Procs :
        (/\ Done(p)
         /\ \E d \in Matching(req[p].patient_id) \cap req[p].docs_at_start :
               NameMismatch(req[p].patient_name_from_request, patients[d].name))
        => Rejected(p) /\ NoSendNoRecord(p)

\* C2: in an assembled response the success flag is true exactly when the
\* specialist e-mail was sent, the patient e-mail was sent and the
\* appointment document was written.
C2_SuccessIffAll ==
    \A p \in Procs :
        Assembled(p) =>
            (req[p].response.success
                <=> (SentTo(p, "specialist") /\ SentTo(p, "patient") /\ Recorded(p)))

C2_Witness ==
    \E p \in Procs :
        /\ Assembled(p) /\ req[p].response.success
        /\ SentTo(p, "specialist") /\ SentTo(p, "patient") /\ Recorded(p)

\* C3: a request that passed validation without a resolved patient e-mail
\* reports patient-send false and success false, also when the specialist
\* e-mail was sent and the appointment was written.
C3_NoEmailNoSuccess ==
    \A p \in Procs :
        (Assembled(p) /\ ~Truthy(req[p].final_patient_email))
        => /\ ~req[p].response.patient_email_sent_status
           /\ ~req[p].response.success
           /\ ~AttemptedTo(p, "patient")

C3_Witness ==
    \E p \in Procs :
        /\ Assembled(p) /\ ~Truthy(req[p].final_patient_email)
        /\ SentTo(p, "specialist") /\ Recorded(p)
        /\ req[p].response.db_save_success

C5_WriteOnce ==
    [][\A id \in DOMAIN appointments :
          id \in DOMAIN appointments' /\ appointments'[id] = appointments[id]]_vars

\* C6: no two documents of the patients collection carry the same patient id.
C6_OneProfilePerId ==
    \A d1, d2 \in DOMAIN patients :
        (patients[d1].patient_id # None /\ patients[d1].patient_id = patients[d2].patient_id)
        => d1 = d2

\* two overlapping requests for one patient id that both found no profile
\* and both wrote one
C6_Witness ==
    /\ req[1].patient_id = req[2].patient_id
    /\ req[1].new_doc_id # None /\ req[2].new_doc_id # None
    /\ req[1].profile_writes # <<>> /\ req[2].profile_writes # <<>>
    /\ req[1].patient_name_from_request # req[2].patient_name_from_request

InDaysTier(value, unit) == unit = DAYS /\ value.n <= 7
InWeeksTier(value, unit) == unit = WEEKS /\ value.n <= 4
InMonthsTier(value, unit) ==
    (unit = MONTHS /\ value.n >= 1) \/ (unit = WEEKS /\ value.n > 4)
SlotIs(p, weeks, time) ==
    /\ req[p].response.assigned_date = Today + 7 * weeks
    /\ req[p].response.assigned_time = time
    /\ Recorded(p) =>
          /\ appointments[req[p].appointment_id].assigned_date = Today + 7 * weeks
          /\ appointments[req[p].appointment_id].assigned_time = time

\* C8: the slot of a response follows the table: days with a value of at
\* most 7 give 2 weeks from now at 10:00, weeks with at most 4 give 3 weeks
\* at 14:00, months with at least 1 or weeks with more than 4 give 6 weeks at
\* 11:00, for every value of -1..MaxDuration.
C8_TierTable ==
    \A p \in Procs :
        LET value == req[p].duration_value
            unit == req[p].duration_unit
        IN  (Assembled(p) /\ value # None)
            => /\ InDaysTier(value, unit) => SlotIs(p, 2, "10:00")
               /\ InWeeksTier(value, unit) => SlotIs(p, 3, "14:00")
               /\ InMonthsTier(value, unit) => SlotIs(p, 6, "11:00")

C8_Witness ==
    \E p \in Procs :
        /\ Assembled(p) /\ Recorded(p)
        /\ req[p].duration_value = Num(5) /\ req[p].duration_unit = WEEKS
        /\ req[p].response.assigned_date = Today + 42
        /\ req[p].response.assigned_time = "11:00"

\* C9: a duration that matches no row gives 3 weeks from now: at 09:30 when
\* value and unit are both there (a value of 0 is there, an empty unit is
\* not), at 09:00 when the value or the unit is missing.
C9_Unmatched ==
    \A p \in Procs :
        LET value == req[p].duration_value
            unit == req[p].duration_unit
        IN  Assembled(p)
            => /\ (value = None \/ ~Truthy(unit)) => SlotIs(p, 3, "09:00")
               /\ (/\ value # None /\ Truthy(unit)
                   /\ ~InDaysTier(value, unit)
                   /\ ~InWeeksTier(value, unit)
                   /\ ~InMonthsTier(value, unit)) => SlotIs(p, 3, "09:30")

C9_Witness ==
    \E p \in Procs :
        /\ Assembled(p) /\ Recorded(p)
        /\ req[p].duration_value = Num(0) /\ req[p].duration_unit = MONTHS
        /\ req[p].response.assigned_date = Today + 21
        /\ req[p].response.assigned_time = "09:30"

\* the patient ids line 326 or 349 generates
IsGenerated(patient_id) == \E r \in 0..MaxRand : patient_id = GeneratedPatientId(r)

\* C10: a request without a patient id, or with the sentinel, gets a
\* generated id and is treated as new: its name is the request's, it has no
\* e-mail, and no profile that was there when it arrived is read or written
\* by it.
C10_NewPatientTouchesNothing ==
    \A p \in Procs :
        IsGenerated(req[p].patient_id)
        => /\ req[p].final_patient_name = req[p].patient_name_from_request
           /\ req[p].final_patient_email = None
           /\ req[p].existing_id \notin req[p].docs_at_start
           /\ pc[p] = "upsert_merge" => req[p].new_doc_id \notin req[p].docs_at_start
           /\ \A i \in DOMAIN req[p].profile_writes :
                 req[p].profile_writes[i] \notin req[p].docs_at_start

-----------------------------------------------------------------------------
(* C11..C20 *)

\* the request carried a usable patient id (line 319)
IdSupplied(p) ==
    Truthy(req[p].patient_id_from_request) /\ req[p].patient_id_from_request # NA
PastLookup(p) == pc[p] \notin {"idle", "lookup", "returned"}

\* C11: a request with a supplied patient id whose lookup finds no profile
\* keeps that id: its resolved name is the request name, it has no resolved
\* e-mail, and the profile it writes and the appointment it records carry
\* exactly the supplied id.
C11_GivenIdKept ==
    \A p \in Procs :
        (IdSupplied(p) /\ PastLookup(p) /\ ~req[p].profile_found)
        => /\ req[p].patient_id = req[p].patient_id_from_request
           /\ req[p].final_patient_name = req[p].patient_name_from_request
           /\ req[p].final_patient_email = None
           /\ \A i \in DOMAIN req[p].profile_writes :
                 patients[req[p].profile_writes[i]].patient_id
                     = req[p].patient_id_from_request
           /\ Recorded(p) =>
                 /\ appointments[req[p].appointment_id].patient_id
                        = req[p].patient_id_from_request
                 /\ appointments[req[p].appointment_id].patient_name
                        = req[p].patient_name_from_request
                 /\ appointments[req[p].appointment_id].patient_email = None

\* the lookup found nothing, the upsert created the profile under the
\* supplied id and the appointment was recorded
C11_Witness ==
    \E p \in Procs :
        /\ IdSupplied(p) /\ Assembled(p) /\ Recorded(p)
        /\ ~req[p].profile_found /\ req[p].store_errors = 0
        /\ req[p].docs_at_start = {}
        /\ req[p].profile_writes = <<req[p].patient_id_from_request>>
        /\ patients[req[p].patient_id_from_request].patient_id
               = req[p].patient_id_from_request

\* the name and e-mail the lookup read from the store
StoredName(p) == req[p].patient_profile.name
StoredEmail(p) == req[p].patient_profile.email
FoundAndMatching(p) ==
    /\ PastLookup(p) /\ req[p].profile_found
    /\ ~NameMismatch(req[p].patient_name_from_request, StoredName(p))

\* C12: when the lookup finds the profile and the names match or one of them
\* is absent, the resolved name is the stored name if there is one, else the
\* request name, and the resolved e-mail is the stored e-mail; the e-mails
\* carry that name and go to that address, and the appointment and the
\* response carry them.
C12_ResolvedFromStore ==
    \A p \in Procs :
        FoundAndMatching(p)
        => LET resolved_name == IF Truthy(StoredName(p)) THEN StoredName(p)
                                ELSE req[p].patient_name_from_request
           IN  /\ pc[p] = "upsert" =>
                     \E d \in Matching(req[p].patient_id) :
                         patients[d] = req[p].patient_profile
               /\ req[p].final_patient_name = resolved_name
               /\ req[p].final_patient_email = StoredEmail(p)
               /\ \A i \in DOMAIN req[p].sends :
                     /\ req[p].sends[i].patient_name = resolved_name
                     /\ req[p].sends[i].kind = "patient"
                            => req[p].sends[i].to_email = StoredEmail(p)
               /\ Assembled(p) =>
                     req[p].response.confirmation_email_address = StoredEmail(p)
               /\ Recorded(p) =>
                     /\ appointments[req[p].appointment_id].patient_name = resolved_name
                     /\ appointments[req[p].appointment_id].patient_email = StoredEmail(p)

\* the request name differs in case from the stored one, and the stored one
\* went into both e-mails and the appointment; the upsert has meanwhile put
\* the request's spelling into the profile
C12_Witness ==
    \E p \in Procs :
        /\ FoundAndMatching(p) /\ Assembled(p) /\ Recorded(p)
        /\ StoredName(p) = AL /\ req[p].patient_name_from_request = al
        /\ StoredEmail(p) = GOOD_EMAIL
        /\ AttemptedTo(p, "specialist") /\ AttemptedTo(p, "patient")
        /\ appointments[req[p].appointment_id].patient_name = AL
        /\ req[p].response.confirmation_email_address = GOOD_EMAIL

\* both sends are behind the request
SendsDone(p) == pc[p] = "record" \/ Assembled(p)

\* C13: once a request that passed validation is through its sends, the
\* specialist send was attempted, the patient send was attempted exactly
\* when there is a well-formed resolved patient e-mail, whatever became of
\* the specialist send, and each status flag is the outcome of its own send.
C13_SendsIndependent ==
    \A p \in Procs :
        SendsDone(p)
        => /\ AttemptedTo(p, "specialist")
           /\ AttemptedTo(p, "patient")
                  <=> (/\ Truthy(req[p].final_patient_email)
                       /\ WellFormedEmail(req[p].final_patient_email))
           /\ req[p].specialist_email_sent_status <=> SentTo(p, "specialist")
           /\ req[p].patient_email_sent_status <=> SentTo(p, "patient")
           /\ Assembled(p) =>
                 /\ req[p].response.specialist_email_sent_status
                        <=> SentTo(p, "specialist")
                 /\ req[p].response.patient_email_sent_status <=> SentTo(p, "patient")

\* the specialist send failed and the patient send went out all the same
C13_Witness ==
    \E p \in Procs :
        /\ Assembled(p)
        /\ AttemptedTo(p, "specialist") /\ ~SentTo(p, "specialist")
        /\ SentTo(p, "patient")
        /\ ~req[p].response.specialist_email_sent_status
        /\ req[p].response.patient_email_sent_status

\* the request got past the name check and has its required fields, and
\* its duration is one the slot table can compare
Resolved(p) ==
    /\ Done(p)
    /\ req[p].response.message # <<"name_mismatch">>
    /\ MissingFields(req[p].final_patient_name, req[p].treatment_details) = <<>>
    /\ ~DurationRaises(req[p].duration_value, req[p].duration_unit)
Malformed(email) == Truthy(email) /\ ~(email.t = "str" /\ EmailRegexMatch(email))
SkippedPatientSend(p) ==
    /\ Assembled(p)
    /\ AttemptedTo(p, "specialist") /\ ~AttemptedTo(p, "patient")
    /\ req[p].appointment_saves = 1
    /\ ~req[p].response.patient_email_sent_status

\* C14 as stated: an otherwise valid request whose resolved patient e-mail
\* is malformed is not rejected; the patient send is skipped, the specialist send and the
\* recording take place and only the patient-send flag tells.
C14_MalformedNotRejected ==
    \A p \in Procs :
        (Resolved(p) /\ Malformed(req[p].final_patient_email)) => SkippedPatientSend(p)

\* C14 as amended: an otherwise valid request whose resolved patient e-mail
\* is missing or empty is not rejected; the patient send is skipped, the specialist send
\* and the recording take place and only the patient-send flag tells.  A
\* request whose resolved patient e-mail is there and malformed is rejected
\* with the failure of line 403, before any send and any appointment write.
C14_MissingSkippedMalformedRejected ==
    \A p \in Procs :
        Resolved(p)
        => /\ ~Truthy(req[p].final_patient_email) => SkippedPatientSend(p)
           /\ Malformed(req[p].final_patient_email)
                 => /\ Rejected(p) /\ req[p].response.status = 400
                    /\ req[p].response.message = <<"invalid_patient_email">>
                    /\ NoSendNoRecord(p) /\ req[p].appointment_saves = 0

\* the stored e-mail is the empty string: the specialist e-mail went out,
\* the appointment was recorded and the patient send was skipped
C14_Witness ==
    \E p \in Procs :
        /\ Resolved(p) /\ req[p].profile_found
        /\ req[p].final_patient_email = EMPTY
        /\ SkippedPatientSend(p) /\ SentTo(p, "specialist") /\ Recorded(p)
        /\ ~req[p].response.success

\* C15: the appointment is saved only after the specialist send and, where
\* one is due, the patient send have been attempted; every request that
\* passed validation and is through its sends has called the save exactly
\* once, whatever the sends returned; and the flags of a recorded
\* appointment are the outcomes of the two sends.
C15_RecordedAfterSends ==
    \A p \in Procs :
        /\ req[p].appointment_saves > 0
              => /\ AttemptedTo(p, "specialist")
                 /\ (/\ Truthy(req[p].final_patient_email)
                     /\ EmailRegexMatch(req[p].final_patient_email))
                        => AttemptedTo(p, "patient")
        /\ (Done(p) /\ AttemptedTo(p, "specialist")) => Assembled(p)
        /\ Assembled(p) => req[p].appointment_saves = 1
        /\ Recorded(p)
              => LET doc == appointments[req[p].appointment_id]
                 IN  /\ doc.specialist_email_sent_status <=> SentTo(p, "specialist")
                     /\ doc.patient_email_sent_status <=> SentTo(p, "patient")

\* both sends were attempted and failed, and the appointment is recorded
\* with both flags false
C15_Witness ==
    \E p \in Procs :
        /\ Assembled(p) /\ Recorded(p)
        /\ AttemptedTo(p, "specialist") /\ ~SentTo(p, "specialist")
        /\ AttemptedTo(p, "patient") /\ ~SentTo(p, "patient")
        /\ ~appointments[req[p].appointment_id].specialist_email_sent_status
        /\ ~appointments[req[p].appointment_id].patient_email_sent_status

NameRejected(p) == Done(p) /\ req[p].response.message = <<"name_mismatch">>
PastValidation(p) == pc[p] \in {"send_specialist", "send_patient", "record", "done"}
\* what the validation of lines 383-403 is there to turn away
InvalidAfterResolution(p) ==
    \/ ~Truthy(req[p].final_patient_name)
    \/ ~Truthy(req[p].treatment_details)
    \/ specialist_email = MALFORMED_SPECIALIST_EMAIL
    \/ Malformed(req[p].final_patient_email)

\* C16: a request that got past the name check without a patient name,
\* without treatment details or with a malformed e-mail is rejected, has sent
\* no e-mail and has not called the appointment save; what it has written is
\* at most its one patient profile, which stays in the store.
C16_RejectedAfterUpsertOnly ==
    \A p \in Procs :
        (PastValidation(p) /\ ~NameRejected(p) /\ InvalidAfterResolution(p))
        => /\ Rejected(p)
           /\ req[p].response.message[1]
                  \in {"missing", "invalid_specialist_email", "invalid_patient_email"}
           /\ NoSendNoRecord(p) /\ req[p].appointment_saves = 0
           /\ req[p].profile_saves = 1 /\ Len(req[p].profile_writes) <= 1
           /\ \A i \in DOMAIN req[p].profile_writes :
                 LET d == req[p].profile_writes[i]
                 IN  /\ d \in DOMAIN patients
                     /\ patients[d].last_updated # Ts(0)
                     /\ patients[d].patient_id = req[p].patient_id

\* a request without treatment details was rejected after it had created
\* its patient's profile
C16_Witness ==
    \E p \in Procs :
        /\ Rejected(p) /\ req[p].response.message = <<"missing", "treatment_details">>
        /\ req[p].docs_at_start = {}
        /\ req[p].profile_writes = <<req[p].patient_id>>
        /\ req[p].patient_id \in DOMAIN patients
        /\ NoSendNoRecord(p)

Attempts(p, kind) == Cardinality({i \in DOMAIN req[p].sends : req[p].sends[i].kind = kind})

\* C17: a request makes at most one specialist send, at most one patient
\* send, at most one call of the profile upsert with at most one profile
\* written, and at most one call of the appointment save with at most one
\* appointment written; a send or a store call that failed is not repeated,
\* so that at most three store calls fail: the lookup, the upsert and the save.
C17_NoRetries ==
    \A p \in Procs :
        /\ Attempts(p, "specialist") <= 1
        /\ Attempts(p, "patient") <= 1
        /\ req[p].profile_saves <= 1
        /\ Len(req[p].profile_writes) <= 1
        /\ req[p].appointment_saves <= 1
        /\ Len(req[p].appointment_writes) <= 1
        /\ req[p].store_errors <= 3

\* the response of a request whose specialist send, profile upsert and
\* appointment save all failed, each after one attempt
C17_Witness ==
    \E p \in Procs :
        /\ Assembled(p)
        /\ Attempts(p, "specialist") = 1 /\ ~SentTo(p, "specialist")
        /\ req[p].profile_saves = 1 /\ req[p].profile_writes = <<>>
        /\ req[p].appointment_saves = 1 /\ req[p].appointment_writes = <<>>
        /\ req[p].store_errors >= 2

\* C18: every response of either endpoint that reports an error is an
\* object with a success flag that is false and a message field.
C18_StructuredErrors ==
    \A p \in Procs :
        (Responded(p) /\ req[p].response.status # 200)
        => /\ "success" \in DOMAIN req[p].response
           /\ ~req[p].response.success
           /\ "message" \in DOMAIN req[p].response

\* a referral with a name and treatment details whose duration can be compared
ValidInput(p) ==
    /\ Truthy(req[p].patient_name_from_request)
    /\ Truthy(req[p].treatment_details)
    /\ ~DurationRaises(req[p].duration_value, req[p].duration_unit)
\* the store was of no use to the whole request: there is no client, or the
\* lookup, the upsert's query and the appointment save all raised
StoreDown(p) ==
    \/ db = "None"
    \/ /\ req[p].store_errors = (IF IdSupplied(p) THEN 3 ELSE 2)
       /\ req[p].existing_id = None /\ req[p].new_doc_id = None
\* the request is one the validation has nothing against
Acceptable(p) == ValidInput(p) /\ ~NameRejected(p) /\ ~Malformed(req[p].final_patient_email)
SenderDownOutcome(p) ==
    /\ Assembled(p)
    /\ AttemptedTo(p, "specialist")
    /\ ~req[p].response.specialist_email_sent_status
    /\ ~req[p].response.patient_email_sent_status
    /\ ~req[p].response.success
    /\ req[p].appointment_saves = 1
    /\ Recorded(p) <=> req[p].response.db_save_success
    /\ (db = "client" /\ req[p].store_errors = 0) => Recorded(p)
StoreDownOutcome(p) ==
    /\ Assembled(p)
    /\ AttemptedTo(p, "specialist")
    /\ ~req[p].response.db_save_success
    /\ ~req[p].response.success
    /\ req[p].profile_writes = <<>> /\ req[p].appointment_writes = <<>>

\* C19 as stated: a valid request still gets the assembled response when a
\* dependency is down; without SMTP configuration both flags are false and
\* the appointment is recorded; without the store both sends are attempted
\* and the response reports the failed save; success is false either way.
C19_BothSendsWithoutStore ==
    \A p \in Procs :
        /\ (Done(p) /\ Acceptable(p) /\ ~smtp_configured) => SenderDownOutcome(p)
        /\ (Done(p) /\ ValidInput(p) /\ StoreDown(p))
              => /\ StoreDownOutcome(p)
                 /\ AttemptedTo(p, "patient")

\* C19 as amended: without the store the specialist send is attempted, and
\* the patient send is skipped, since the patient's e-mail can only come from
\* the store; the rest as stated.
C19_DegradedStillCompletes ==
    \A p \in Procs :
        /\ (Done(p) /\ Acceptable(p) /\ ~smtp_configured) => SenderDownOutcome(p)
        /\ (Done(p) /\ ValidInput(p) /\ StoreDown(p))
              => /\ StoreDownOutcome(p)
                 /\ req[p].final_patient_email = None
                 /\ ~AttemptedTo(p, "patient")
                 /\ ~req[p].response.patient_email_sent_status

\* without SMTP configuration an earlier request has recorded its
\* appointment with both flags false; the store then failed the next request
\* throughout, which sent nothing to the patient and reports the failed save
C19_Witness ==
    /\ ~smtp_configured /\ db = "client"
    /\ \E id \in DOMAIN appointments :
          /\ ~appointments[id].specialist_email_sent_status
          /\ ~appointments[id].patient_email_sent_status
    /\ Done(2) /\ ValidInput(2) /\ StoreDown(2)
    /\ StoreDownOutcome(2) /\ SenderDownOutcome(2)

\* C20 as stated: in an assembled response the success flag is false as soon
\* as the profile upsert failed, the specialist send failed, the patient send
\* failed or was skipped, or the appointment write failed.
C20_AnySoftFailure ==
    \A p \in Procs :
        (/\ Assembled(p)
         /\ \/ ~req[p].profile_save_success
            \/ ~SentTo(p, "specialist")
            \/ ~SentTo(p, "patient")
            \/ ~Recorded(p))
        => ~req[p].response.success

\* C20 as amended: the success flag is false as soon as the specialist send
\* failed, the patient send failed or was skipped, or the appointment write
\* failed; a profile upsert that failed is not among them: with both e-mails
\* sent and the appointment written the flag is true all the same.
C20_SendOrSaveFailure ==
    \A p \in Procs :
        Assembled(p)
        => /\ (\/ ~SentTo(p, "specialist")
               \/ ~SentTo(p, "patient")
               \/ ~Recorded(p)) => ~req[p].response.success
           /\ (/\ ~req[p].profile_save_success
               /\ SentTo(p, "specialist") /\ SentTo(p, "patient") /\ Recorded(p))
                  => req[p].response.success

\* the profile was updated and both e-mails went out; the appointment write
\* alone failed, and the flag is false
C20_Witness ==
    \E p \in Procs :
        /\ Assembled(p) /\ req[p].profile_save_success
        /\ SentTo(p, "specialist") /\ SentTo(p, "patient")
        /\ req[p].appointment_saves = 1 /\ ~Recorded(p)
        /\ ~req[p].response.db_save_success
        /\ ~req[p].response.success


-----------------------------------------------------------------------------
(* C21..C26 *)

\* a GP lookup that has its answer of lines 273-277
LookedUp(p) ==
    /\ Responded(p)
    /\ req[p].route = "/get_gp_doctor"
    /\ req[p].response.status = 200
\* the documents of the appointments collection of a patient and of type GP
GpOf(patient_id) ==
    {i \in DOMAIN gp_appointments :
        /\ gp_appointments[i].patient_id = patient_id
        /\ gp_appointments[i].appointment_type = "GP"}
\* those of them that carry a timestamp
DatedGpOf(patient_id) ==
    {i \in GpOf(patient_id) : gp_appointments[i].timestamp # None}
\* document i is of the latest timestamp among the documents of a set
Latest(i, among) ==
    /\ i \in among
    /\ \A j \in among : gp_appointments[j].timestamp.n <= gp_appointments[i].timestamp.n
NotFound(p) == req[p].response.doctor_name = None /\ ~req[p].response.success

\* C21 as stated: a GP lookup answers not-found exactly when the patient
\* has no appointment of type GP, and otherwise with the doctor name of
\* the patient's GP appointment of the greatest timestamp.
C21_LatestGpOrNotFound ==
    \A p \in Procs :
        LookedUp(p) =>
            /\ NotFound(p) <=> GpOf(req[p].patient_id) = {}
            /\ GpOf(req[p].patient_id) # {} =>
                  \E i \in DatedGpOf(req[p].patient_id) :
                      /\ Latest(i, DatedGpOf(req[p].patient_id))
                      /\ req[p].response.doctor_name = gp_appointments[i].doctor_name

\* C21, amended: a GP lookup that answers looks at the patient's
\* appointments of type GP that carry a timestamp.  It answers not-found
\* exactly when there is none, or when the one of the greatest timestamp
\* names no doctor or the placeholder "a GP doctor"; otherwise it answers
\* with the doctor name of the one of the greatest timestamp.
C21_LatestDatedGpOrNotFound ==
    \A p \in Procs :
        LookedUp(p) =>
            LET dated == DatedGpOf(req[p].patient_id)
            IN  IF dated = {}
                THEN NotFound(p)
                ELSE \E i \in dated :
                        /\ Latest(i, dated)
                        /\ IF gp_appointments[i].doctor_name \in {None, A_GP_DOCTOR}
                           THEN NotFound(p)
                           ELSE /\ req[p].response.success
                                /\ req[p].response.doctor_name
                                        = gp_appointments[i].doctor_name

\* a lookup for P1 answered with the doctor of the later of P1's two
\* visits, which is neither the first streamed nor the latest of the
\* collection
C21_Witness ==
    \E p \in Procs :
        /\ LookedUp(p)
        /\ req[p].patient_id = P1
        /\ Len(gp_appointments) = 3
        /\ gp_appointments[1].doctor_name = DR_A
        /\ gp_appointments[2].patient_id = P2
        /\ req[p].response.success
        /\ req[p].response.doctor_name = DR_B

\* a call of the field extractor that has returned
Extracted(p) == pc[p] = "done" /\ req[p].route = "get_string_param"
Raw(p) == req[p].data_dict[req[p].key]

\* C22: the field extractor never returns a mapping: for a raw value that
\* is a non-empty mapping it returns the mapping's first value, for an
\* absent or null key the caller's default, and otherwise the raw value
\* unchanged.
C22_NeverReturnsMapping ==
    \A p \in Procs :
        Extracted(p) =>
            /\ req[p].value.t # "dict"
            /\ IF Raw(p).t = "dict" /\ Raw(p).items # <<>>
               THEN req[p].value = Raw(p).items[1]
               ELSE IF Raw(p) = None
               THEN req[p].value = req[p].default_value
               ELSE req[p].value = Raw(p)

\* both requests are referrals under one supplied patient id that no
\* document carried before them (a document that carried it would still do
\* so, under a document id other than the patient id: InitConcurrent), with
\* names that differ also when case is ignored, and both have been told
\* 'not found' by their lookup
RaceOnUnknownId ==
    /\ \A p \in Procs :
          /\ req[p].route = "/send_referral_email"
          /\ PastLookup(p) /\ IdSupplied(p)
          /\ ~req[p].profile_found
          /\ Truthy(req[p].patient_name_from_request)
    /\ req[1].patient_id = req[2].patient_id
    /\ Lower(req[1].patient_name_from_request) # Lower(req[2].patient_name_from_request)
    /\ Matching(req[1].patient_id) \subseteq {req[1].patient_id}
\* the step is a profile write of request p
WritesProfile(p) == Len(req'[p].profile_writes) > Len(req[p].profile_writes)

\* C23: two overlapping referrals for one patient id that was unknown, with
\* names that differ when case is ignored, can both be told 'not found' and
\* both run to their response with their sends and appointment records.
\* Neither is then rejected by the name check, and every profile write of
\* either leaves exactly one profile for the id, which carries the
\* writer's name: the name that stays is the last writer's.
C23_LastWriterWins ==
    [][/\ RaceOnUnknownId' =>
            \A p \in Procs :
                Done(p)' => req'[p].response.message # <<"name_mismatch">>
       /\ \A p \in Procs :
            RaceOnUnknownId /\ WritesProfile(p) =>
                /\ Matching(req[p].patient_id)' = {req[p].patient_id}
                /\ patients'[req[p].patient_id].name = req[p].patient_data.name
      ]_vars

\* both requests found no profile and no document under the id, both
\* created one, both sent to the specialist and recorded their appointment;
\* one profile is left, with the name of the second request
C23_Witness ==
    /\ RaceOnUnknownId
    /\ \A p \in Procs :
          /\ Assembled(p)
          /\ req[p].store_errors = 0
          /\ pc[p] = "done" /\ req[p].new_doc_id # None
          /\ req[p].existing_data = NoDoc
          /\ req[p].profile_writes = <<req[p].patient_id>>
          /\ SentTo(p, "specialist") /\ Recorded(p)
    /\ Cardinality(DOMAIN appointments) = 2
    /\ DOMAIN patients = {req[1].patient_id}
    /\ patients[req[1].patient_id].name = req[2].patient_name_from_request

\* C24: a referral rejected for name mismatch leaves the profile store as
\* it was: the request never called the upsert and wrote nothing, the
\* collection holds the documents it held when the request arrived, and
\* the profile of the patient is still, in name, e-mail and timestamps,
\* the one the lookup read.
C24_RejectionLeavesStore ==
    \A p \in Procs :
        NameRejected(p) =>
            /\ req[p].profile_saves = 0
            /\ req[p].profile_writes = <<>>
            /\ DOMAIN patients = req[p].docs_at_start
            /\ \E d \in Matching(req[p].patient_id) :
                  patients[d] = req[p].patient_profile

\* the second request was rejected for its name after the first one had
\* written the profile
C24_Witness ==
    /\ pc[1] = "returned"
    /\ NameRejected(2)
    /\ req[2].profile_found
    /\ req[2].patient_profile.last_updated # Ts(0)
    /\ Lower(req[2].patient_name_from_request) # Lower(req[2].patient_profile.name)

\* no store call of the request that takes the step has raised
StoreAvailable ==
    \A p \in Procs : req[p].store_errors = 0 /\ req'[p].store_errors = 0

\* C25: with one request at a time and a store that answers every call, a
\* profile that holds a non-empty name keeps it, up to letter case, through
\* every step of every later request.
C25_StoredNameStable ==
    [][StoreAvailable =>
          \A d \in DOMAIN patients :
              Truthy(patients[d].name) =>
                  /\ d \in DOMAIN patients'
                  /\ Lower(patients'[d].name) = Lower(patients[d].name)]_vars

\* the answer a GP lookup for a patient would get from the collection
GpAnswer(patient_id) == GpDoctorName(GpAppointments(patient_id))

\* the step writes to the store
StoreWrite ==
    \/ patients' # patients
    \/ appointments' # appointments
    \/ gp_appointments' # gp_appointments

\* C26: no step of a referral changes what the GP lookup answers for any
\* patient: the appointments collection the lookup reads is never written,
\* every write leaves the lookup's answer for every patient as it was, and
\* what referrals write to the specialist appointments collection are
\* documents of type 'Specialist'.
C26_ReferralsLeaveGpLookup ==
    [][/\ gp_appointments' = gp_appointments
       /\ StoreWrite =>
            /\ \A patient_id \in {P1, P2} \cup {req[p].patient_id : p \in Procs} :
                  GpAnswer(patient_id)' = GpAnswer(patient_id)
            /\ \A a \in DOMAIN appointments' :
                  appointments'[a].appointment_type = "Specialist"]_vars

\* after a referral for P1 has recorded its appointment, the lookup for P1
\* still answers with the doctor of P1's latest GP visit
C26_Witness ==
    /\ pc[1] = "returned"
    /\ \E a \in DOMAIN appointments : appointments[a].patient_id = P1
    /\ LookedUp(2)
    /\ req[2].patient_id = P1
    /\ req[2].response.doctor_name = DR_B
    /\ GpAnswer(P1) = DR_B

=============================================================================
